---- MODULE Spec2Model ----
(***************************************************************************)
(* A model of two pieces of the editor:                                    *)
(*   - the native BlockMover toolbar (block-mover/index.native.js): the    *)
(*     withSelect mapping that derives the position flags of the selected  *)
(*     blocks from the block-editor store, the render that hides, enables  *)
(*     or disables the two move buttons and labels them, and the           *)
(*     withDispatch callbacks that forward move requests to the store;     *)
(*   - PluginSidebarMoreMenuItem and reduceMotion (unnamed/part_000).      *)
(* Strings of several words are modelled as sequences of words; numbers    *)
(* substituted into a label are formatted to decimal strings.              *)
(***************************************************************************)
EXTENDS Integers, Sequences, FiniteSets, TLC

VARIABLES
    blockOrder,           \* store: container id -> sequence of block client ids
    templateLock,         \* store: container id -> template lock of that container
    clientIds,            \* own prop of BlockMover: one client id or an array of them
    horizontalDirection,  \* own prop of BlockMover
    props,                \* the props withSelect last mapped for BlockMover
    dispatched,           \* history: the store action the last step dispatched, and from
                          \* which button
    activeGeneralSidebar, \* edit-post store: name of the open general sidebar
    clicks,               \* history: the menu item clicks since the store was last
                          \* changed from elsewhere, each with what it dispatched
    motionRules           \* the calls of reduceMotion so far: argument and result

moverVars == <<blockOrder, templateLock, clientIds, horizontalDirection, props,
               dispatched>>
sidebarVars == <<activeGeneralSidebar, clicks>>
motionVars == <<motionRules>>
vars == <<moverVars, sidebarVars, motionVars>>

----------------------------------------------------------------------------
(* Bounds of the model *)

\* number of blocks that exist
MaxBlocks == 3
\* longest array of client ids handed to BlockMover
MaxSel == 2

BlockNames == <<"a", "b", "c", "d", "e">>
Blocks == {BlockNames[i] : i \in 1..MaxBlocks}

\* the top-level scope (no rootClientId) and one nested container
TopLevel == ""
Roots == {TopLevel, "p"}
\* JS null
Null == "<null>"
\* template locks: the top-level one comes from the editor settings, the nested
\* container's from its block list settings
LockValues(r) == IF r = TopLevel THEN {"none", "insert", "all"} ELSE {"none", "all"}

Range(s) == {s[i] : i \in 1..Len(s)}
Injective(s) == \A i, j \in 1..Len(s) : s[i] = s[j] => i = j

\* values of the clientIds prop: a single client id, or a non-empty array
ArrayProps == {[array |-> TRUE, id |-> "", ids |-> s] :
                 s \in {t \in UNION {[1..n -> Blocks] : n \in 1..MaxSel} : Injective(t)}}
ScalarProps == {[array |-> FALSE, id |-> b, ids |-> <<>>] : b \in Blocks}

----------------------------------------------------------------------------
(* lodash helpers *)

castArray(v) == IF v.array THEN v.ids ELSE <<v.id>>
first(s) == s[1]
last(s) == s[Len(s)]

\* Array.prototype.indexOf: 0-based position of the first occurrence, or -1
indexOf(s, x) ==
    IF x \in Range(s)
    THEN (CHOOSE i \in 1..Len(s) : s[i] = x /\ \A j \in 1..(i - 1) : s[j] # x) - 1
    ELSE -1

\* JS truthiness of a container id
Falsy(r) == r = "" \/ r = Null

----------------------------------------------------------------------------
(* core/block-editor selectors *)

getBlockRootClientId(order, clientId) ==
    IF \E r \in DOMAIN order : clientId \in Range(order[r])
    THEN CHOOSE r \in DOMAIN order : clientId \in Range(order[r])
    ELSE Null

getBlockOrder(order, rootClientId) ==
    LET key == IF Falsy(rootClientId) THEN TopLevel ELSE rootClientId
    IN  IF key \in DOMAIN order THEN order[key] ELSE <<>>

getBlockIndex(order, clientId, rootClientId) ==
    indexOf(getBlockOrder(order, rootClientId), clientId)

getTemplateLock(locks, rootClientId) ==
    LET key == IF Falsy(rootClientId) THEN TopLevel ELSE rootClientId
    IN  IF key \in DOMAIN locks THEN locks[key] ELSE "none"

----------------------------------------------------------------------------
(* withSelect mapping of BlockMover *)

withSelectIsLastFromFirst(order, locks, cids) ==
    LET normalizedClientIds == castArray(cids)
        firstClientId == first(normalizedClientIds)
        rootClientId == getBlockRootClientId(order, firstClientId)
        order0 == getBlockOrder(order, rootClientId)
        firstIndex == getBlockIndex(order, firstClientId, rootClientId)
    IN  [firstIndex |-> firstIndex,
         isFirst |-> firstIndex = 0,
         isLast |-> firstIndex = Len(order0) - 1,
         isLocked |-> getTemplateLock(locks, rootClientId) = "all",
         rootClientId |-> rootClientId]

withSelectLastIndexAsFirst(order, locks, cids) ==
    LET normalizedClientIds == castArray(cids)
        firstClientId == first(normalizedClientIds)
        rootClientId == getBlockRootClientId(order, firstClientId)
        order0 == getBlockOrder(order, rootClientId)
        lastIndex == getBlockIndex(order, last(normalizedClientIds), rootClientId)
    IN  [firstIndex |-> lastIndex,
         isFirst |-> lastIndex = 0,
         isLast |-> lastIndex = Len(order0) - 1,
         isLocked |-> getTemplateLock(locks, rootClientId) = "all",
         rootClientId |-> rootClientId]

withSelect(order, locks, cids) ==
    LET normalizedClientIds == castArray(cids)
        firstClientId == first(normalizedClientIds)
        rootClientId == getBlockRootClientId(order, firstClientId)
        order0 == getBlockOrder(order, rootClientId)
        firstIndex == getBlockIndex(order, firstClientId, rootClientId)
        lastIndex == getBlockIndex(order, last(normalizedClientIds), rootClientId)
    IN  [firstIndex |-> firstIndex,
         isFirst |-> firstIndex = 0,
         isLast |-> lastIndex = Len(order0) - 1,
         isLocked |-> getTemplateLock(locks, rootClientId) = "all",
         rootClientId |-> rootClientId]

----------------------------------------------------------------------------
(* sprintf with positional %n$s arguments, over sequences of words *)

ArgOf(word) ==
    CASE word = "%1$s" -> 1
      [] word = "%2$s" -> 2
      [] word = "%3$s" -> 3
      [] word = "%4$s" -> 4
      [] OTHER -> 0

sprintf(format, args) ==
    [i \in 1..Len(format) |->
        IF ArgOf(format[i]) = 0 THEN format[i] ELSE args[ArgOf(format[i])]]

\* 'Move block %2$s from %1$s %3$s to %1$s %4$s'
MoveTemplate ==
    <<"Move", "block", "%2$s", "from", "%1$s", "%3$s", "to", "%1$s", "%4$s">>

----------------------------------------------------------------------------
(* BlockMover: the render *)

NotRendered == [rendered |-> FALSE]

firstButtonTitle(p, horizontal) ==
    LET firstBlockTitle == IF horizontal THEN <<"Move", "block", "left">>
                                         ELSE <<"Move", "block", "up">>
        firstButtonDirection == IF horizontal THEN "left" ELSE "up"
        location == IF horizontal THEN "position" ELSE "row"
    IN  IF ~p.isFirst
        THEN sprintf(MoveTemplate, <<location, firstButtonDirection,
                                     ToString(p.firstIndex + 1), ToString(p.firstIndex)>>)
        ELSE firstBlockTitle

secondButtonTitleSwapped(p, horizontal) ==
    LET lastBlockTitle == IF horizontal THEN <<"Move", "block", "right">>
                                        ELSE <<"Move", "block", "down">>
        secondButtonDirection == IF horizontal THEN "right" ELSE "down"
        location == IF horizontal THEN "position" ELSE "row"
    IN  IF ~p.isLast
        THEN sprintf(MoveTemplate, <<secondButtonDirection, location,
                                     ToString(p.firstIndex + 1), ToString(p.firstIndex + 2)>>)
        ELSE lastBlockTitle

secondButtonTitleZeroBased(p, horizontal) ==
    LET lastBlockTitle == IF horizontal THEN <<"Move", "block", "right">>
                                        ELSE <<"Move", "block", "down">>
        secondButtonDirection == IF horizontal THEN "right" ELSE "down"
        location == IF horizontal THEN "position" ELSE "row"
    IN  IF ~p.isLast
        THEN sprintf(MoveTemplate, <<location, secondButtonDirection,
                                     ToString(p.firstIndex), ToString(p.firstIndex + 1)>>)
        ELSE lastBlockTitle

secondButtonTitle(p, horizontal) ==
    LET lastBlockTitle == IF horizontal THEN <<"Move", "block", "right">>
                                        ELSE <<"Move", "block", "down">>
        secondButtonDirection == IF horizontal THEN "right" ELSE "down"
        location == IF horizontal THEN "position" ELSE "row"
    IN  IF ~p.isLast
        THEN sprintf(MoveTemplate, <<location, secondButtonDirection,
                                     ToString(p.firstIndex + 1), ToString(p.firstIndex + 2)>>)
        ELSE lastBlockTitle

HiddenIgnoringLock(p) == p.isFirst /\ p.isLast /\ Falsy(p.rootClientId)

HiddenWhenBoundary(p) == p.isLocked \/ (p.isFirst /\ p.isLast)

Hidden(p) == p.isLocked \/ (p.isFirst /\ p.isLast /\ Falsy(p.rootClientId))

BlockMover(p, horizontal) ==
    IF Hidden(p)
    THEN NotRendered
    ELSE [rendered |-> TRUE,
          firstButton |-> [title |-> firstButtonTitle(p, horizontal),
                           isDisabled |-> p.isFirst,
                           onClick |-> "onMoveUp",
                           icon |-> IF horizontal THEN "arrowLeft" ELSE "arrowUp"],
          secondButton |-> [title |-> secondButtonTitle(p, horizontal),
                            isDisabled |-> p.isLast,
                            onClick |-> "onMoveDown",
                            icon |-> IF horizontal THEN "arrowRight" ELSE "arrowDown"]]

----------------------------------------------------------------------------
(* withDispatch mapping of BlockMover: partial( action, clientIds, rootClientId ) *)

\* no action dispatched
NoCall == [type |-> "none", clientIds |-> [array |-> TRUE, id |-> "", ids |-> <<>>],
           rootClientId |-> "", icon |-> ""]
\* an action another part of the editor dispatched
OtherCall == [type |-> "other", clientIds |-> [array |-> TRUE, id |-> "", ids |-> <<>>],
              rootClientId |-> "", icon |-> ""]

withDispatchCrossed(cids, rootClientId) ==
    [onMoveDown |-> [type |-> "moveBlocksUp", clientIds |-> cids,
                     rootClientId |-> rootClientId],
     onMoveUp |-> [type |-> "moveBlocksDown", clientIds |-> cids,
                   rootClientId |-> rootClientId]]

withDispatch(cids, rootClientId) ==
    [onMoveDown |-> [type |-> "moveBlocksDown", clientIds |-> cids,
                     rootClientId |-> rootClientId],
     onMoveUp |-> [type |-> "moveBlocksUp", clientIds |-> cids,
                   rootClientId |-> rootClientId]]

----------------------------------------------------------------------------
(* core/block-editor actions: the reducers behind moveBlocksUp / moveBlocksDown *)

Max(a, b) == IF a > b THEN a ELSE b
Min(a, b) == IF a < b THEN a ELSE b

\* Array.prototype.slice( from, to ) for 0 <= from
slice(s, from, to) == SubSeq(s, Max(from, 0) + 1, Min(to, Len(s)))

\* the array with `count` elements starting at `from` moved so that they start at `to`
moveTo(array, from, to, count) ==
    LET withoutMovedElements == slice(array, 0, from) \o slice(array, from + count, Len(array))
    IN  slice(withoutMovedElements, 0, to)
          \o slice(array, from, from + count)
          \o slice(withoutMovedElements, to, Len(withoutMovedElements))

moveBlocks(order, call) ==
    LET cids == castArray(call.clientIds)
        key == IF Falsy(call.rootClientId) THEN TopLevel ELSE call.rootClientId
        subState == getBlockOrder(order, key)
        firstIndex == indexOf(subState, first(cids))
    IN  IF Len(subState) = 0 \/ firstIndex = -1
        THEN order
        ELSE IF call.type = "moveBlocksUp"
        THEN IF first(cids) = first(subState)
             THEN order
             ELSE [order EXCEPT ![key] = moveTo(subState, firstIndex, firstIndex - 1, Len(cids))]
        ELSE IF last(cids) = last(subState)
             THEN order
             ELSE [order EXCEPT ![key] = moveTo(subState, firstIndex, firstIndex + 1, Len(cids))]

InTree(order, b) == \E r \in DOMAIN order : b \in Range(order[r])

insertAt(s, i, b) == SubSeq(s, 1, i) \o <<b>> \o SubSeq(s, i + 1, Len(s))
removeFrom(s, b) == SelectSeq(s, LAMBDA x : x # b)

----------------------------------------------------------------------------
(* The block mover: initial state and steps *)

InitOrder == [r \in Roots |-> IF r = TopLevel THEN [i \in 1..MaxBlocks |-> BlockNames[i]]
                                              ELSE <<>>]
InitClientIds == [array |-> TRUE, id |-> "", ids |-> <<BlockNames[1]>>]

MoverInit ==
    /\ blockOrder = InitOrder
    /\ templateLock = [r \in Roots |-> "none"]
    /\ clientIds = InitClientIds
    /\ horizontalDirection = FALSE
    /\ props = withSelect(InitOrder, [r \in Roots |-> "none"], InitClientIds)
    /\ dispatched = NoCall

\* what is on screen: BlockMover applied to the mapped props and the own props
Rendered == BlockMover(props, horizontalDirection)

\* the parent renders again with the same props: withSelect maps again
Render ==
    /\ props' = withSelect(blockOrder, templateLock, clientIds)
    /\ dispatched' = NoCall
    /\ UNCHANGED <<blockOrder, templateLock, clientIds, horizontalDirection>>
    /\ UNCHANGED <<sidebarVars, motionVars>>

\* the user selects one block: the parent hands over its client id, bare or in an array
SelectBlock ==
    \E c \in ScalarProps \cup {a \in ArrayProps : Len(a.ids) = 1} :
        /\ c # clientIds
        /\ clientIds' = c
        /\ props' = withSelect(blockOrder, templateLock, c)
        /\ dispatched' = NoCall
        /\ UNCHANGED <<blockOrder, templateLock, horizontalDirection>>
        /\ UNCHANGED <<sidebarVars, motionVars>>

\* the user extends the selection by one block: the parent hands over a longer array
ExtendSelection ==
    \E b \in Blocks :
        /\ Len(castArray(clientIds)) < MaxSel
        /\ b \notin Range(castArray(clientIds))
        /\ clientIds' = [array |-> TRUE, id |-> "", ids |-> Append(castArray(clientIds), b)]
        /\ props' = withSelect(blockOrder, templateLock, clientIds')
        /\ dispatched' = NoCall
        /\ UNCHANGED <<blockOrder, templateLock, horizontalDirection>>
        /\ UNCHANGED <<sidebarVars, motionVars>>

SetHorizontalDirection ==
    /\ horizontalDirection' = ~horizontalDirection
    /\ props' = withSelect(blockOrder, templateLock, clientIds)
    /\ dispatched' = NoCall
    /\ UNCHANGED <<blockOrder, templateLock, clientIds>>
    /\ UNCHANGED <<sidebarVars, motionVars>>

PressKeepingProps(button) ==
    /\ BlockMover(props, horizontalDirection).rendered
    /\ ~button.isDisabled
    /\ LET call == withDispatch(clientIds, props.rootClientId)[button.onClick]
       IN  /\ blockOrder' = moveBlocks(blockOrder, call)
           /\ dispatched' = [type |-> call.type, clientIds |-> call.clientIds,
                              rootClientId |-> call.rootClientId, icon |-> button.icon]
    /\ props' = props
    /\ UNCHANGED <<templateLock, clientIds, horizontalDirection>>
    /\ UNCHANGED <<sidebarVars, motionVars>>

\* a press on a rendered, enabled button runs its onClick; the store changes and
\* withSelect maps the new store state
Press(button) ==
    /\ Rendered.rendered
    /\ ~button.isDisabled
    /\ LET call == withDispatch(clientIds, props.rootClientId)[button.onClick]
       IN  /\ blockOrder' = moveBlocks(blockOrder, call)
           /\ dispatched' = [type |-> call.type, clientIds |-> call.clientIds,
                              rootClientId |-> call.rootClientId, icon |-> button.icon]
    /\ props' = withSelect(blockOrder', templateLock, clientIds)
    /\ UNCHANGED <<templateLock, clientIds, horizontalDirection>>
    /\ UNCHANGED <<sidebarVars, motionVars>>

PressFirstButton == Rendered.rendered /\ Press(Rendered.firstButton)

PressSecondButton == Rendered.rendered /\ Press(Rendered.secondButton)

\* other parts of the editor change the store
InsertBlock ==
    \E b \in Blocks, r \in Roots :
        /\ ~InTree(blockOrder, b)
        /\ \E i \in 0..Len(blockOrder[r]) :
               blockOrder' = [blockOrder EXCEPT ![r] = insertAt(blockOrder[r], i, b)]
        /\ props' = withSelect(blockOrder', templateLock, clientIds)
        /\ dispatched' = OtherCall
        /\ UNCHANGED <<templateLock, clientIds, horizontalDirection>>
        /\ UNCHANGED <<sidebarVars, motionVars>>
    /\ UNCHANGED <<sidebarVars, motionVars>>

RemoveBlock ==
    \E b \in Blocks :
        /\ InTree(blockOrder, b)
        /\ blockOrder' = [r \in Roots |-> removeFrom(blockOrder[r], b)]
        /\ props' = withSelect(blockOrder', templateLock, clientIds)
        /\ dispatched' = OtherCall
        /\ UNCHANGED <<templateLock, clientIds, horizontalDirection>>
        /\ UNCHANGED <<sidebarVars, motionVars>>
    /\ UNCHANGED <<sidebarVars, motionVars>>

UpdateTemplateLock ==
    \E r \in Roots : \E v \in LockValues(r) :
        /\ templateLock[r] # v
        /\ templateLock' = [templateLock EXCEPT ![r] = v]
        /\ props' = withSelect(blockOrder, templateLock', clientIds)
        /\ dispatched' = OtherCall
        /\ UNCHANGED <<blockOrder, clientIds, horizontalDirection>>
        /\ UNCHANGED <<sidebarVars, motionVars>>

Next ==
    \/ Render
    \/ SelectBlock
    \/ ExtendSelection
    \/ SetHorizontalDirection
    \/ PressFirstButton
    \/ PressSecondButton
    \/ InsertBlock
    \/ RemoveBlock
    \/ UpdateTemplateLock

----------------------------------------------------------------------------
(* PluginSidebarMoreMenuItem *)

\* number of plugins, and of sidebars each plugin has
MaxPlugins == 2
MaxTargets == 2
\* longest run of menu item clicks followed
MaxClicks == 3

\* the plugin contexts: name and icon of each registered plugin
PluginContexts ==
    {[name |-> "plugin-" \o ToString(i), icon |-> "icon-" \o ToString(i)] : i \in 1..MaxPlugins}
Targets == {"sidebar-" \o ToString(i) : i \in 1..MaxTargets}
\* the menu items: the plugin each is rendered in and its own props; icon "" is no
\* icon prop
MenuItems ==
    {[context |-> c, target |-> t, icon |-> ic] :
        c \in PluginContexts, t \in Targets, ic \in {"", "more"}}
\* general sidebars of the editor itself
EditorSidebars == {"edit-post/document", "edit-post/block"}

sidebarWithPluginContext(context, ownProps) ==
    [icon |-> IF ownProps.icon # "" THEN ownProps.icon ELSE context.icon,
     sidebarName |-> context.name \o "/" \o ownProps.target]

getActiveGeneralSidebarName(active) == active

sidebarWithSelect(active, sidebarName) ==
    [isSelected |-> getActiveGeneralSidebarName(active) = sidebarName]

sidebarWithDispatchAlwaysOpen(isSelected, sidebarName) ==
    [onClick |-> [type |-> "openGeneralSidebar", name |-> sidebarName]]

sidebarWithDispatch(isSelected, sidebarName) ==
    [onClick |-> IF isSelected
                 THEN [type |-> "closeGeneralSidebar", name |-> ""]
                 ELSE [type |-> "openGeneralSidebar", name |-> sidebarName]]

\* the composed component for one menu item, given the store's active sidebar
PluginSidebarMoreMenuItem(active, item) ==
    LET fromContext == sidebarWithPluginContext(item.context, item)
        isSelected == sidebarWithSelect(active, fromContext.sidebarName).isSelected
        onClick == sidebarWithDispatch(isSelected, fromContext.sidebarName).onClick
    IN  [icon |-> IF isSelected THEN "check" ELSE fromContext.icon,
         isSelected |-> isSelected,
         role |-> "menuitemcheckbox",
         onClick |-> onClick]

\* core/edit-post reducer for the two actions
editPost(active, action) ==
    IF action.type = "openGeneralSidebar" THEN action.name
    ELSE IF action.type = "closeGeneralSidebar" THEN Null
    ELSE active

SidebarInit ==
    /\ activeGeneralSidebar = Null
    /\ clicks = <<>>

ClickMenuItem ==
    \E item \in MenuItems :
        /\ Len(clicks) < MaxClicks
        /\ LET rendered == PluginSidebarMoreMenuItem(activeGeneralSidebar, item)
           IN  /\ activeGeneralSidebar' = editPost(activeGeneralSidebar, rendered.onClick)
               /\ clicks' = Append(clicks, [item |-> item,
                                            wasSelected |-> rendered.isSelected,
                                            action |-> rendered.onClick])
        /\ UNCHANGED <<moverVars, motionVars>>

\* the editor opens one of its own sidebars
OpenEditorSidebar ==
    \E name \in EditorSidebars :
        /\ activeGeneralSidebar' = editPost(activeGeneralSidebar,
                                            [type |-> "openGeneralSidebar", name |-> name])
        /\ clicks' = <<>>
        /\ UNCHANGED <<moverVars, motionVars>>

\* the open sidebar is closed from its own close button
CloseFromSidebar ==
    /\ activeGeneralSidebar # Null
    /\ activeGeneralSidebar' = editPost(activeGeneralSidebar,
                                        [type |-> "closeGeneralSidebar", name |-> ""])
    /\ clicks' = <<>>
    /\ UNCHANGED <<moverVars, motionVars>>

SidebarNext ==
    \/ ClickMenuItem
    \/ OpenEditorSidebar
    \/ CloseFromSidebar

----------------------------------------------------------------------------
(* reduceMotion: CSS text as a sequence of tokens *)

\* number of reduceMotion calls followed
MaxRules == 3

Undefined == "<undefined>"
MotionArgs == {Undefined, Null, "transition", "animation", "opacity", "Transition", ""}

reduceMotionSwitch(prop) ==
    CASE prop = "transition" -> <<"transition-duration", ":", "0ms", ";">>
      [] prop = "animation" -> <<"animation-duration", ":", "1ms", ";">>
      [] OTHER -> <<"animation-duration", ":", "1ms", ";",
                    "transition-duration", ":", "0ms", ";">>

reduceMotionNoDefault(arg) ==
    <<"@media", "(", "prefers-reduced-motion", ":", "reduce", ")", "{">>
        \o reduceMotionSwitch(arg) \o <<";", "}">>

reduceMotion(arg) ==
    LET prop == IF arg = Undefined THEN "transition" ELSE arg
        style == reduceMotionSwitch(prop)
    IN  <<"@media", "(", "prefers-reduced-motion", ":", "reduce", ")", "{">>
            \o style \o <<";", "}">>

MotionInit == motionRules = <<>>

CallReduceMotion ==
    \E arg \in MotionArgs :
        /\ Len(motionRules) < MaxRules
        /\ motionRules' = Append(motionRules, [arg |-> arg, css |-> reduceMotion(arg)])
        /\ UNCHANGED <<moverVars, sidebarVars>>

----------------------------------------------------------------------------
(* The specifications *)

SidebarIdle == activeGeneralSidebar = Null /\ clicks = <<>>
MotionIdle == motionRules = <<>>

Init == MoverInit /\ SidebarIdle /\ MotionIdle
Spec == Init /\ [][Next]_vars

\* the menu items alone, the block mover and the style helper at rest
SidebarSpecInit == MoverInit /\ SidebarInit /\ MotionIdle
SidebarSpec == SidebarSpecInit /\ [][SidebarNext]_vars

\* the style helper alone
MotionSpecInit == MoverInit /\ SidebarIdle /\ MotionInit
MotionNext == CallReduceMotion
MotionSpec == MotionSpecInit /\ [][MotionNext]_vars

----------------------------------------------------------------------------
(* What the store says about the selection, stated without the selectors *)

Sel == IF clientIds.array THEN clientIds.ids ELSE <<clientIds.id>>
\* the selection is non-empty and fully contained in one container's ordering
Contained == \E r \in Roots : Range(Sel) \subseteq Range(blockOrder[r])
Container == CHOOSE r \in Roots : Range(Sel) \subseteq Range(blockOrder[r])
Ordering == blockOrder[Container]
PosOf(b) == CHOOSE i \in 1..Len(Ordering) : Ordering[i] = b
SelIsFirst == Ordering[1] = Sel[1]
SelIsLast == Ordering[Len(Ordering)] = Sel[Len(Sel)]
FullyLocked == templateLock[Container] = "all"
MoveEarlierEnabled == Rendered.rendered /\ ~Rendered.firstButton.isDisabled
MoveLaterEnabled == Rendered.rendered /\ ~Rendered.secondButton.isDisabled
Moves == {"moveBlocksUp", "moveBlocksDown"}

(* C1: for a selection contained in its container's ordering, BlockMover renders
   nothing if and only if the container's template lock is 'all', or the selection
   is first and last and the container is the top-level scope; in every other
   case both buttons are rendered. *)
C1_HiddenIff ==
    Contained =>
        /\ ~Rendered.rendered <=>
              (FullyLocked \/ (SelIsFirst /\ SelIsLast /\ Container = TopLevel))
        /\ Rendered.rendered => {"firstButton", "secondButton"} \subseteq DOMAIN Rendered

\* a single block alone in the top-level scope, unlocked: nothing is rendered;
\* reached by removing the other blocks
C1_Witness ==
    /\ Contained /\ Container = TopLevel /\ ~FullyLocked
    /\ Len(Ordering) = 1 /\ ~Rendered.rendered
    /\ dispatched.type = "other"

(* C2: for a selection contained in the ordering of a container that is not fully
   locked, exactly one of isFirst and "move earlier enabled" is true, and exactly
   one of isLast and "move later enabled"; isFirst is that the first selected
   block is at index 0, isLast that the last selected block is at the end. *)
C2_BoundaryOrEnabled ==
    (Contained /\ ~FullyLocked) =>
        /\ props.isFirst <=> SelIsFirst
        /\ props.isLast <=> SelIsLast
        /\ SelIsFirst <=> ~MoveEarlierEnabled
        /\ SelIsLast <=> ~MoveLaterEnabled

\* a two-block selection spanning the whole ordering of the nested container:
\* both buttons are rendered and disabled
C2_Witness ==
    /\ Contained /\ ~FullyLocked /\ Container = "p"
    /\ Len(Sel) = 2 /\ Len(Ordering) = 2
    /\ SelIsFirst /\ SelIsLast
    /\ Rendered.rendered
    /\ Rendered.firstButton.isDisabled /\ Rendered.secondButton.isDisabled

(* C3: while the container of the selection is fully locked the buttons are not
   rendered, and no step dispatches moveBlocksUp or moveBlocksDown for a fully
   locked container. *)
C3_LockedNeverMoves ==
    /\ (Contained /\ FullyLocked) => (~Rendered.rendered /\ dispatched.type \notin Moves)
    /\ dispatched.type \in Moves =>
          getTemplateLock(templateLock, dispatched.rootClientId) # "all"

\* a fully locked container of several blocks with the selection in the middle
C3_Witness ==
    /\ Contained /\ FullyLocked
    /\ Len(Ordering) >= 3 /\ ~SelIsFirst /\ ~SelIsLast
    /\ ~Rendered.rendered

(* C4: a button that is not at its boundary is titled with the template: the
   direction word and the location noun of the axis, the 1-based ordinal of the
   first selected block after "from", and after "to" the ordinal before it
   (earlier button) or after it (later button); a button at its boundary has the
   static title of the axis. This holds for selections of every size. *)
C4_Titles ==
    (Contained /\ Rendered.rendered) =>
        LET location == IF horizontalDirection THEN "position" ELSE "row"
            earlier == IF horizontalDirection THEN "left" ELSE "up"
            later == IF horizontalDirection THEN "right" ELSE "down"
            otherAxis == IF horizontalDirection THEN {"row", "up", "down"}
                                                ELSE {"position", "left", "right"}
            ordinal == PosOf(Sel[1])
            t1 == Rendered.firstButton.title
            t2 == Rendered.secondButton.title
            Templated(t, dir, target) ==
                /\ Len(t) = 9
                /\ <<t[1], t[2], t[4], t[7]>> = <<"Move", "block", "from", "to">>
                /\ {dir, location} \subseteq Range(t)
                /\ Range(t) \cap otherAxis = {}
                /\ t[6] = ToString(ordinal)
                /\ t[9] = ToString(target)
        IN  /\ IF SelIsFirst THEN t1 = <<"Move", "block", earlier>>
                             ELSE Templated(t1, earlier, ordinal - 1)
            /\ IF SelIsLast THEN t2 = <<"Move", "block", later>>
                            ELSE Templated(t2, later, ordinal + 1)

\* a two-block selection at the start, its last block not at firstIndex: the later
\* button is templated from the first block's ordinal
C4_Witness ==
    /\ Contained /\ Rendered.rendered /\ horizontalDirection
    /\ Len(Sel) = 2 /\ PosOf(Sel[2]) = PosOf(Sel[1]) + 1
    /\ SelIsFirst /\ ~SelIsLast
    /\ Rendered.secondButton.title[9] = "2"

Example1 ==
    /\ blockOrder[TopLevel] = <<"a", "b", "c">>
    /\ Sel = <<"a">>
    /\ templateLock[TopLevel] = "none"
    /\ ~horizontalDirection

(* C5 as amended: for ordering [a,b,c], selection [a], no lock, vertical axis:
   isFirst, not isLast, earlier button disabled and titled 'Move block up', later
   button enabled and titled 'Move block down from row 1 to row 2'. *)
C5_Example1 ==
    Example1 =>
        /\ props.isFirst /\ ~props.isLast
        /\ ~MoveEarlierEnabled /\ MoveLaterEnabled
        /\ Rendered.firstButton.title = <<"Move", "block", "up">>
        /\ Rendered.secondButton.title =
              <<"Move", "block", "down", "from", "row", "1", "to", "row", "2">>

(* C5 as claimed: the same, with the later button titled
   'Move block row from down 1 to down 2'. *)
C5_AsClaimed ==
    Example1 =>
        /\ props.isFirst /\ ~props.isLast
        /\ ~MoveEarlierEnabled /\ MoveLaterEnabled
        /\ Rendered.firstButton.title = <<"Move", "block", "up">>
        /\ Rendered.secondButton.title =
              <<"Move", "block", "row", "from", "down", "1", "to", "down", "2">>

\* example 1 after block a was moved to the top by the earlier button
C5_Witness == Example1 /\ dispatched.type = "moveBlocksUp"

(* C6: after every step (a move, any other change of the store, a new selection)
   the mapped props are those of the current ordering: firstIndex is the current
   index of the first selected block, isFirst that it is 0, isLast that the last
   selected block is at the current end. *)
C6_Fresh ==
    Contained =>
        /\ props.firstIndex = PosOf(Sel[1]) - 1
        /\ props.isFirst <=> PosOf(Sel[1]) = 1
        /\ props.isLast <=> PosOf(Sel[Len(Sel)]) = Len(Ordering)
        /\ props.rootClientId = Container

\* block a, first at the start, has been moved down to index 2
C6_Witness ==
    /\ Contained /\ Sel = <<"a">>
    /\ dispatched.type = "moveBlocksDown"
    /\ props.firstIndex = 2

\* what C7 says of one step
C7_Step ==
    /\ dispatched'.type = "none" => UNCHANGED <<blockOrder, templateLock>>
    /\ blockOrder' # blockOrder => dispatched'.type \in Moves \cup {"other"}
    /\ dispatched'.type \in Moves =>
          /\ dispatched'.clientIds = clientIds
          /\ dispatched'.rootClientId = getBlockRootClientId(blockOrder, Sel[1])
          /\ dispatched'.type = "moveBlocksUp" <=> dispatched'.icon \in {"arrowUp", "arrowLeft"}
          /\ dispatched'.type = "moveBlocksDown" <=> dispatched'.icon \in {"arrowDown", "arrowRight"}
          /\ UNCHANGED <<clientIds, templateLock, horizontalDirection>>

(* C7: a step that dispatches nothing leaves the ordering and the locks
   unchanged; the ordering changes only with a dispatched action; and a press
   dispatches moveBlocksUp from the earlier button (arrow up / left) and
   moveBlocksDown from the later one, with exactly the clientIds prop and the
   container resolved for the first selected block, leaving selection and locks
   unchanged. *)
C7_Frame == [][C7_Step]_vars

\* the later button was pressed for a two-block selection in the nested container
C7_Witness ==
    /\ dispatched.type = "moveBlocksDown"
    /\ dispatched.rootClientId = "p"
    /\ Len(Sel) = 2
    /\ dispatched.icon = "arrowRight"

NotFound == \A r \in Roots : Sel[1] \notin Range(blockOrder[r])

(* C8 as amended: when the first selected block is in no container's ordering,
   nothing fails: firstIndex is -1 and isFirst is false, and unless the top-level
   template lock is 'all' the earlier button is rendered enabled, titled from the
   current ordinal 0 and the target ordinal -1. *)
C8_NotFoundContinues ==
    NotFound =>
        /\ props.firstIndex = -1
        /\ ~props.isFirst
        /\ templateLock[TopLevel] # "all" =>
              /\ MoveEarlierEnabled
              /\ Rendered.firstButton.title[6] = "0"
              /\ Rendered.firstButton.title[9] = "-1"

(* C8 as claimed: the props never report firstIndex = -1, and no enabled button
   and no title built from it is presented for a selection that is not found. *)
C8_AsClaimed ==
    /\ props.firstIndex # -1
    /\ NotFound => ~MoveEarlierEnabled /\ ~MoveLaterEnabled

\* the selected block was removed from the store while selected
C8_Witness ==
    /\ NotFound
    /\ dispatched.type = "other"
    /\ templateLock[TopLevel] = "none"
    /\ MoveEarlierEnabled

----------------------------------------------------------------------------
(* Menu items and the style helper *)

SidebarNameOf(item) == item.context.name \o "/" \o item.target
Shown(item) == PluginSidebarMoreMenuItem(activeGeneralSidebar, item)
LastClick == clicks[Len(clicks)]

(* C9: a menu item is selected exactly when the active general sidebar is
   '<plugin name>/<target>', and then shows the check icon, otherwise its own icon
   or else the plugin's; a click on an unselected item leaves it selected, a
   click on a selected item leaves no general sidebar open; so after a run of
   clicks the selected items all name one sidebar, that of the item clicked last
   when that click opened it, and none is selected when it closed it. *)
C9_Toggle ==
    /\ \A item \in MenuItems :
          /\ Shown(item).isSelected <=> activeGeneralSidebar = SidebarNameOf(item)
          /\ Shown(item).icon =
                IF activeGeneralSidebar = SidebarNameOf(item) THEN "check"
                ELSE IF item.icon # "" THEN item.icon ELSE item.context.icon
    /\ \A i, j \in MenuItems :
          (Shown(i).isSelected /\ Shown(j).isSelected) => SidebarNameOf(i) = SidebarNameOf(j)
    /\ clicks # <<>> =>
          /\ ~LastClick.wasSelected =>
                /\ LastClick.action.type = "openGeneralSidebar"
                /\ Shown(LastClick.item).isSelected
                /\ Shown(LastClick.item).icon = "check"
          /\ LastClick.wasSelected =>
                /\ LastClick.action.type = "closeGeneralSidebar"
                /\ activeGeneralSidebar = Null
                /\ \A item \in MenuItems : ~Shown(item).isSelected

\* an item was opened, another one opened in its place, and that one clicked again
C9_Witness ==
    /\ Len(clicks) = 3
    /\ ~clicks[1].wasSelected /\ ~clicks[2].wasSelected /\ clicks[3].wasSelected
    /\ SidebarNameOf(clicks[1].item) # SidebarNameOf(clicks[2].item)
    /\ clicks[3].item = clicks[2].item
    /\ activeGeneralSidebar = Null

\* the declarations of a rule: what stands between "{" and "}", split at ";"
Braces(css) == {i \in 1..Len(css) : css[i] \in {"{", "}"}}
Declarations(css) ==
    {SubSeq(css, i, i + 2) : i \in {k \in 8..(Len(css) - 3) : css[k + 1] = ":"}}
MediaQuery == <<"@media", "(", "prefers-reduced-motion", ":", "reduce", ")", "{">>
TransitionOff == <<"transition-duration", ":", "0ms">>
AnimationOff == <<"animation-duration", ":", "1ms">>

(* C10: every result of reduceMotion is one rule of the media query
   '@media ( prefers-reduced-motion: reduce )': it starts with the query and its
   opening brace and ends with the only closing brace; its declarations are
   'transition-duration: 0ms' alone for 'transition' and for no argument,
   'animation-duration: 1ms' alone for 'animation', and both for any other
   argument. *)
C10_ReduceMotion ==
    \A n \in 1..Len(motionRules) :
        LET arg == motionRules[n].arg
            css == motionRules[n].css
        IN  /\ SubSeq(css, 1, 7) = MediaQuery
            /\ Braces(css) = {7, Len(css)}
            /\ css[Len(css)] = "}"
            /\ \A i \in 8..(Len(css) - 1) :
                  css[i] \in {";", ":"} \cup Range(TransitionOff) \cup Range(AnimationOff)
            /\ Declarations(css) =
                  IF arg \in {"transition", Undefined} THEN {TransitionOff}
                  ELSE IF arg = "animation" THEN {AnimationOff}
                  ELSE {AnimationOff, TransitionOff}

\* reduceMotion was called with no argument, with 'animation' and with another word
C10_Witness ==
    /\ Len(motionRules) = 3
    /\ {motionRules[n].arg : n \in 1..3} = {Undefined, "animation", "opacity"}

====
